---- MODULE Spec2Model ----
(***************************************************************************)
(* A model of the AETERNITAS simulation core (src/src/lib.rs): the LCG     *)
(* generator, the 64-byte genome and its codec, Simulacrum::move_to and    *)
(* the three passes of World::tick.                                        *)
(*                                                                         *)
(* Number representation.                                                  *)
(*   u64   a tuple of 8 bytes, least significant first, so that the        *)
(*         wrapping multiply-add of the generator is computed exactly      *)
(*         (TLC's integers are 32 bits wide).                              *)
(*   f32   a fixed-point integer in units of 1/Scale.  Every constant of   *)
(*         the code (0.5, 25.0, 50.0, 0.1, 0.01 ...) is a multiple of      *)
(*         1/Scale; quotients are floored.  Rounding of f32 arithmetic,    *)
(*         NaN and infinities are outside the model.                       *)
(*                                                                         *)
(* Loops are recursive operators that thread the loop's variables through  *)
(* their parameters, one operator for the loop test and one for the body.  *)
(***************************************************************************)
EXTENDS Integers, Sequences, FiniteSets, TLC

\* ------------------------------------------------------------------
\* Part 1: the generator (lib.rs 7-27)
\* ------------------------------------------------------------------

\* Fixed-point units per 1.0 of an f32 quantity.
Scale == 1000

\* const A: u64 = 6364136223846793005 = 0x5851F42D4C957F2D, low byte first.
LcgA == <<45, 127, 149, 76, 45, 244, 81, 88>>

\* const C: u64 = 1442695040888963407 = 0x14057B7EF767814F, low byte first.
LcgC == <<79, 129, 103, 247, 126, 123, 5, 20>>

\* A small natural number as a u64.
U64(n) ==
    << n % 256, (n \div 256) % 256, (n \div 65536) % 256, (n \div 16777216) % 256,
       0, 0, 0, 0 >>

\* Rng::new(seed): the state is the seed itself.
RngNew(seed) == seed

\* state.wrapping_mul(A).wrapping_add(C): schoolbook multiplication byte by
\* byte, carries propagated upward, everything above byte 7 discarded.
WrappingMulAdd(s, a, c) ==
    LET t0 == s[1]*a[1] + c[1]
        t1 == s[1]*a[2] + s[2]*a[1] + c[2] + (t0 \div 256)
        t2 == s[1]*a[3] + s[2]*a[2] + s[3]*a[1] + c[3] + (t1 \div 256)
        t3 == s[1]*a[4] + s[2]*a[3] + s[3]*a[2] + s[4]*a[1] + c[4] + (t2 \div 256)
        t4 == s[1]*a[5] + s[2]*a[4] + s[3]*a[3] + s[4]*a[2] + s[5]*a[1]
              + c[5] + (t3 \div 256)
        t5 == s[1]*a[6] + s[2]*a[5] + s[3]*a[4] + s[4]*a[3] + s[5]*a[2]
              + s[6]*a[1] + c[6] + (t4 \div 256)
        t6 == s[1]*a[7] + s[2]*a[6] + s[3]*a[5] + s[4]*a[4] + s[5]*a[3]
              + s[6]*a[2] + s[7]*a[1] + c[7] + (t5 \div 256)
        t7 == s[1]*a[8] + s[2]*a[7] + s[3]*a[6] + s[4]*a[5] + s[5]*a[4]
              + s[6]*a[3] + s[7]*a[2] + s[8]*a[1] + c[8] + (t6 \div 256)
    IN  << t0 % 256, t1 % 256, t2 % 256, t3 % 256,
           t4 % 256, t5 % 256, t6 % 256, t7 % 256 >>

\* the step without the increment C
NextU64NoIncrement(state) == WrappingMulAdd(state, LcgA, U64(0))

\* Rng::next_u64: the new state, which is also the value returned.
NextU64(state) == WrappingMulAdd(state, LcgA, LcgC)

\* r % 3 for a u64 r (256 = 1 mod 3, so the bytes may be summed).
Mod3(r) == (r[1] + r[2] + r[3] + r[4] + r[5] + r[6] + r[7] + r[8]) % 3

\* The largest value h of the upper 32 bits (state >> 32) for which
\* (h as f32 / u32::MAX as f32) < 0.0001 holds in f32 arithmetic.
MutationMaxHi == 429496

\* rng.next_f32() < 0.0001, decided on the state next_u64 returned:
\* the upper 32 bits are bytes 5..8.
BelowMutationRate(r) ==
    /\ r[8] = 0
    /\ r[7] * 65536 + r[6] * 256 + r[5] <= MutationMaxHi

\* ------------------------------------------------------------------
\* Part 2: the genome (lib.rs 29-127)
\* ------------------------------------------------------------------

GenomeLen == 64

RECURSIVE FromSeedLoop(_, _, _)
RECURSIVE FromSeedBody(_, _, _)
\* the loop body, r being the value next_u64 returned:
\* bytes[i] = (r >> 56) as u8
FromSeedBody(r, i, bytes) == FromSeedLoop(r, i + 1, Append(bytes, r[8]))

\* for i in 0..64 { let r = rng.next_u64(); ... }
FromSeedLoop(state, i, bytes) ==
    IF i = GenomeLen THEN bytes
    ELSE FromSeedBody(NextU64(state), i, bytes)

\* Genome::from_seed
FromSeed(seed) == FromSeedLoop(RngNew(seed), 0, <<>>)

\* bit `bit` (0 = least significant) of a byte
BitOf(byte, bit) == (byte \div (2 ^ bit)) % 2

\* byte ^ (1 << bit)
FlipBit(byte, bit) ==
    IF BitOf(byte, bit) = 1 THEN byte - 2 ^ bit ELSE byte + 2 ^ bit

\* One iteration of Genome::mutate's inner loop: `if rng.next_f32() < 0.0001
\* { *byte ^= 1 << bit }`, r being the generator state after the draw.
MutateBit(byte, r, bit) ==
    IF BelowMutationRate(r) THEN FlipBit(byte, bit) ELSE byte

RECURSIVE MutateBits(_, _, _)
RECURSIVE MutateBitsBody(_, _, _)
\* the inner loop's body for one bit, r being the state after its draw
MutateBitsBody(byte, r, bit) == MutateBits(MutateBit(byte, r, bit), r, bit + 1)

\* Genome::mutate's inner loop `for bit in 0..8` on one byte, from `bit` on:
\* one draw per bit.  Yields the byte and the generator state afterwards.
MutateBits(byte, state, bit) ==
    IF bit = 8 THEN [byte |-> byte, rng |-> state]
    ELSE MutateBitsBody(byte, NextU64(state), bit)

\* bytes[i] := m.byte (i 0-based), with the generator state m.rng
MutateAt(bytes, i, m) ==
    [genome |-> IF m.byte = bytes[i + 1] THEN bytes
                ELSE [bytes EXCEPT ![i + 1] = m.byte],
     rng    |-> m.rng]

RECURSIVE MutateRange(_, _, _, _)
RECURSIVE MutateRest(_, _, _)
\* the bytes mid..hi-1, after `left` (the genome and the generator state the
\* bytes before them left).  The test makes TLC finish the left half first.
MutateRest(left, mid, hi) ==
    IF Len(left.genome) = GenomeLen      \* always: no operation resizes
    THEN MutateRange(left.genome, left.rng, mid, hi)
    ELSE left

\* Genome::mutate's outer loop over the bytes lo..hi-1 (0-based), in order.
\* The range is halved only to keep the evaluation shallow: the generator
\* state is threaded from each byte to the next.
MutateRange(bytes, state, lo, hi) ==
    IF hi - lo = 1
    THEN MutateAt(bytes, lo, MutateBits(bytes[lo + 1], state, 0))
    ELSE MutateRest(MutateRange(bytes, state, lo, (lo + hi) \div 2), (lo + hi) \div 2, hi)

\* Genome::mutate: yields the mutated genome and the generator state after
\* the 512 draws.
Mutate(bytes, state) == MutateRange(bytes, state, 0, GenomeLen)

RECURSIVE AndNat(_, _)
\* a & b on naturals, bit by bit
AndNat(a, b) ==
    IF a = 0 \/ b = 0 THEN 0
    ELSE (a % 2) * (b % 2) + 2 * AndNat(a \div 2, b \div 2)

RECURSIVE OrNat(_, _)
\* a | b on naturals, bit by bit
OrNat(a, b) ==
    IF a = 0 THEN b
    ELSE IF b = 0 THEN a
    ELSE (IF a % 2 = 1 \/ b % 2 = 1 THEN 1 ELSE 0) + 2 * OrNat(a \div 2, b \div 2)

\* !m on one byte of the mask
NotByte(m) == 255 - m

\* one byte of the chunk with both parents under the mask itself
CombineSameMask(a, b, m) == OrNat(AndNat(a, m), AndNat(b, m))

\* (self_chunk & mask) | (other_chunk & !mask), on one byte of the chunk
Combine(a, b, m) == OrNat(AndNat(a, m), AndNat(b, NotByte(m)))

\* The byte orders of the targets: from_ne_bytes and to_ne_bytes use the
\* target's own.
Endians == {"little", "big"}

\* the byte of the mask (a u64, least significant byte first) that falls on
\* byte j (0-based) of a chunk
MaskByte(mask, j, endian) == IF endian = "little" THEN mask[j + 1] ELSE mask[8 - j]

\* byte j of chunk i of the child
ChildByte(a, b, mask, i, j, endian) ==
    Combine(a[8 * i + j + 1], b[8 * i + j + 1], MaskByte(mask, j, endian))

\* chunk i of the child: child_bytes[range]
ChildChunk(a, b, mask, i, endian) ==
    << ChildByte(a, b, mask, i, 0, endian), ChildByte(a, b, mask, i, 1, endian),
       ChildByte(a, b, mask, i, 2, endian), ChildByte(a, b, mask, i, 3, endian),
       ChildByte(a, b, mask, i, 4, endian), ChildByte(a, b, mask, i, 5, endian),
       ChildByte(a, b, mask, i, 6, endian), ChildByte(a, b, mask, i, 7, endian) >>

RECURSIVE CrossoverLoop(_, _, _, _, _, _)
RECURSIVE CrossoverBody(_, _, _, _, _, _)
\* the loop body for chunk i, mask being the value next_u64 returned
CrossoverBody(a, b, mask, i, child_bytes, endian) ==
    CrossoverLoop(a, b, mask, i + 1,
                  child_bytes \o ChildChunk(a, b, mask, i, endian), endian)

\* for i in 0..8 { ... }: child_bytes holds the chunks written so far
CrossoverLoop(a, b, state, i, child_bytes, endian) ==
    IF i = 8 THEN [genome |-> child_bytes, rng |-> state]
    ELSE CrossoverBody(a, b, NextU64(state), i, child_bytes, endian)

\* Genome::crossover of a (self) and b (other): the child's bytes and the
\* generator state afterwards.
Crossover(a, b, state, endian) == CrossoverLoop(a, b, state, 0, <<>>, endian)

\* A u32 is a pair <<low 16 bits, high 16 bits>>.
\* decode's get_u32: u32::from_le_bytes of bytes[start..start+4] (start 0-based).
GetU32(bytes, start) ==
    << bytes[start + 1] + 256 * bytes[start + 2],
       bytes[start + 3] + 256 * bytes[start + 4] >>

\* p >> 1 on a u32
ShiftRight1(p) == << (p[1] \div 2) + (p[2] % 2) * 32768, p[2] \div 2 >>

RECURSIVE XorNat(_, _)
\* a ^ b on naturals, bit by bit
XorNat(a, b) ==
    IF a = 0 THEN b
    ELSE IF b = 0 THEN a
    ELSE ((a + b) % 2) + 2 * XorNat(a \div 2, b \div 2)

\* n ^ p on u32s
Xor32(n, p) == << XorNat(n[1], p[1]), XorNat(n[2], p[2]) >>

\* p > 0
NonZero32(p) == p[1] > 0 \/ p[2] > 0

RECURSIVE GrayLoop(_, _)
RECURSIVE GrayBody(_, _)
\* the loop body after `p >>= 1`: n ^= p
GrayBody(n, p) == GrayLoop(Xor32(n, p), p)

\* while p > 0 { p >>= 1; n ^= p; }
GrayLoop(n, p) ==
    IF NonZero32(p) /\ NonZero32(n)     \* n >= p throughout the loop
    THEN GrayBody(n, ShiftRight1(p))
    ELSE n

\* one iteration with the two statements in the other order: n ^= p; p >>= 1
GrayStepXorFirst(n, p) == [p |-> ShiftRight1(p), n |-> Xor32(n, p)]

\* one iteration of the loop, `p >>= 1; n ^= p;`: the p and the n it leaves
GrayStepResult(n, p) == [p |-> ShiftRight1(p), n |-> Xor32(n, ShiftRight1(p))]

\* decode's gray_decode closure: let mut p = n; the loop; n
GrayDecode(n) == GrayLoop(n, n)

\* normalize(v) * range, in fixed point: floor(v * range / 2^32) with range in
\* units of 1/Scale (u32::MAX as f32 is 2^32).  Computed byte by byte so that
\* no intermediate exceeds 31 bits.
NormalizeTimes(v, range) ==
    LET t0 == (v[1] % 256) * range
        t1 == (v[1] \div 256) * range + (t0 \div 256)
        t2 == (v[2] % 256) * range + (t1 \div 256)
        t3 == (v[2] \div 256) * range + (t2 \div 256)
    IN  t3 \div 256

\* Genome::decode: words at byte offsets 0, 4, 16, 34, Gray-decoded,
\* normalised and rescaled; every trait in units of 1/Scale.
Decode(bytes) ==
    [ bmr               |-> NormalizeTimes(GrayDecode(GetU32(bytes, 0)), 2 * Scale - Scale \div 2)
                            + Scale \div 2,
      body_mass         |-> NormalizeTimes(GrayDecode(GetU32(bytes, 4)), 100 * Scale - Scale)
                            + Scale,
      perception_radius |-> NormalizeTimes(GrayDecode(GetU32(bytes, 16)), 100 * Scale - Scale)
                            + Scale,
      max_lifespan      |-> NormalizeTimes(GrayDecode(GetU32(bytes, 34)), 5000 * Scale - 1000 * Scale)
                            + 1000 * Scale ]

\* ------------------------------------------------------------------
\* Part 3: the events (lib.rs 140-145)
\* ------------------------------------------------------------------

\* Option::None
None == [type |-> "None"]

Birth(parent_id) == [type |-> "Birth", parent_id |-> parent_id]

Death(id) == [type |-> "Death", id |-> id, reason |-> "Energy Depletion"]

Move(id, x, y) == [type |-> "Move", id |-> id, x |-> x, y |-> y]

\* ------------------------------------------------------------------
\* Part 4: the agent (lib.rs 159-196)
\* ------------------------------------------------------------------

\* Simulacrum::new: energy 100.0, alive
InitialEnergy == 100 * Scale

SimulacrumNew(id, genome, start_pos) ==
    [ id        |-> id,
      genome    |-> genome,
      phenotype |-> Decode(genome),
      pos       |-> start_pos,
      energy    |-> InitialEnergy,
      alive     |-> TRUE ]

\* Position::dist, squared: move_to only uses dist.powi(2).
DistSquared(a, b) == (a.x - b.x) * (a.x - b.x) + (a.y - b.y) * (a.y - b.y)

\* cost = 0.5 * body_mass * dist^2 * 0.1
MoveCost(body_mass, dist2) == (body_mass * dist2) \div 20

\* `target.x >= world_size || target.y >= world_size`
\* the guard with > for >=: a target on the line x = world_size passes
OutOfGridStrict(target, world_size) == target.x > world_size \/ target.y > world_size

OutOfGrid(target, world_size) == target.x >= world_size \/ target.y >= world_size

\* Simulacrum::move_to: the agent afterwards and the Option<Event> returned.
MoveTo(c, target, world_size) ==
    IF OutOfGrid(target, world_size)
    THEN [agent |-> c, event |-> None]
    ELSE [agent |-> [c EXCEPT !.energy = c.energy - MoveCost(c.phenotype.body_mass,
                                                            DistSquared(c.pos, target)),
                              !.pos = target],
          event |-> Move(c.id, target.x, target.y)]

\* ------------------------------------------------------------------
\* Part 5: the world (lib.rs 198-340)
\* ------------------------------------------------------------------

\* sin(a), a in units of 1/Scale, by its Taylor series to a^7 (accurate to
\* a few units for |a| <= pi/2, which covers every tick and position of the
\* bounded model).
Sin(a) ==
    LET a2 == (a * a) \div Scale
        t3 == (a * a2) \div (6 * Scale)
        t5 == (t3 * a2) \div (20 * Scale)
        t7 == (t5 * a2) \div (42 * Scale)
    IN  a - t3 + t5 - t7

\* cos(a), a in units of 1/Scale, by its Taylor series to a^6 (same range).
Cos(a) ==
    LET a2 == (a * a) \div Scale
        t2 == a2 \div 2
        t4 == (t2 * a2) \div (12 * Scale)
        t6 == (t4 * a2) \div (30 * Scale)
    IN  Scale - t2 + t4 - t6

\* World::calculate_energy: t = tick * 0.01, x = pos.x * 0.1, y = pos.y * 0.1,
\* pattern = sin(t + x) * cos(t + y), norm = (pattern + 1) / 2, 1 + 10 * norm.
Pattern(t, x, y) == (Sin(t + x) * Cos(t + y)) \div Scale

CalculateEnergy(tick, pos) ==
    Scale + (10 * (Pattern((tick * Scale) \div 100, (pos.x * Scale) \div 10,
                           (pos.y * Scale) \div 10) + Scale)) \div 2

\* let threshold = 50.0
ReproThreshold == 50 * Scale

\* let split_cost = 25.0
SplitCost == 25 * Scale

\* (v as i32).max(0).min(size as i32 - 1) as u16
ClampToGrid(v, world_size) ==
    LET lo == IF v > 0 THEN v ELSE 0
        hi == IF lo < world_size - 1 THEN lo ELSE world_size - 1
    IN  hi % 65536

\* the delta without the shift: r % 3, a step in {0, 1, 2}
DeltaUnshifted(r) == Mod3(r)

\* (r % 3) as i32 - 1
Delta(r) == Mod3(r) - 1

\* Pass 1, steps 1-3 (lib.rs 249-256): creature.energy += gain - loss
Feed(c, tick) ==
    [c EXCEPT !.energy = c.energy + CalculateEnergy(tick, c.pos) - c.phenotype.bmr]

\* Pass 1, step 4 (lib.rs 259-271), r1 and r2 being the two draws
AttemptMove(c, r1, r2, world_size) ==
    IF Delta(r1) # 0 \/ Delta(r2) # 0
    THEN MoveTo(c, [x |-> ClampToGrid(c.pos.x + Delta(r1), world_size),
                    y |-> ClampToGrid(c.pos.y + Delta(r2), world_size)],
                world_size).agent
    ELSE c

\* the vitals with the split cost taken for the reproduction threshold
CheckVitalsSplitThreshold(c, state) ==
    [creature |-> c,
     rng      |-> state,
     dead     |-> c.energy <= 0,
     repro    |-> ~(c.energy <= 0) /\ c.energy > SplitCost]

\* Pass 1, steps 5-6 (lib.rs 273-284): whether the index goes to
\* dead_indices, and otherwise whether the id goes to repro_ids
CheckVitals(c, state) ==
    [creature |-> c,
     rng      |-> state,
     dead     |-> c.energy <= 0,
     repro    |-> ~(c.energy <= 0) /\ c.energy > ReproThreshold]

\* the vitals read before the move: a creature the movement cost exhausts is
\* not marked
ActVitalsFirst(c, r1, world_size) ==
    [CheckVitals(c, NextU64(r1)) EXCEPT
         !.creature = AttemptMove(c, r1, NextU64(r1), world_size)]

\* steps 4-6 with the second draw made only when the first delta is zero
ActSecondDrawSkipped(c, r1, world_size) ==
    IF Delta(r1) # 0
    THEN CheckVitals(MoveTo(c, [x |-> ClampToGrid(c.pos.x + Delta(r1), world_size),
                                y |-> c.pos.y], world_size).agent, r1)
    ELSE CheckVitals(AttemptMove(c, r1, NextU64(r1), world_size), NextU64(r1))

\* steps 4-6 on the fed creature, r1 being the first draw
Act(c, r1, world_size) ==
    CheckVitals(AttemptMove(c, r1, NextU64(r1), world_size), NextU64(r1))

\* the body with the flagged creature's id pushed on repro_ids as well when
\* its energy is above the threshold
AnalyseFlaggedEligible(c, state, tick, world_size) ==
    IF ~c.alive
    THEN [creature |-> c, rng |-> state, dead |-> TRUE,
          repro |-> c.energy > ReproThreshold]
    ELSE Act(Feed(c, tick), NextU64(state), world_size)

\* The body of pass 1 for one creature (lib.rs 244-284): what it leaves of
\* the creature and of the generator, and whether the index is pushed on
\* dead_indices and the id on repro_ids.
Analyse(c, state, tick, world_size) ==
    IF ~c.alive
    THEN [creature |-> c, rng |-> state, dead |-> TRUE, repro |-> FALSE]
    ELSE Act(Feed(c, tick), NextU64(state), world_size)

RECURSIVE AnalysisPass(_, _, _, _, _, _, _)
RECURSIVE AnalysisBody(_, _, _, _, _, _, _)
\* what the body for creature i (0-based), whose result is a, leaves for the
\* creatures after it
AnalysisBody(cs, a, tick, world_size, i, dead_indices0, repro_ids0) ==
    AnalysisPass([cs EXCEPT ![i + 1] = a.creature], a.rng, tick, world_size, i + 1,
                 IF a.dead THEN Append(dead_indices0, i) ELSE dead_indices0,
                 IF a.repro THEN Append(repro_ids0, a.creature.id) ELSE repro_ids0)

\* Pass 1 (lib.rs 243-285): `for (i, creature) in creatures.iter_mut()
\* .enumerate()`, from index i (0-based) on.
AnalysisPass(cs, state, tick, world_size, i, dead_indices0, repro_ids0) ==
    IF i >= Len(cs)
    THEN [creatures |-> cs, rng |-> state,
          dead_indices |-> dead_indices0, repro_ids |-> repro_ids0]
    ELSE AnalysisBody(cs, Analyse(cs[i + 1], state, tick, world_size), tick, world_size,
                      i, dead_indices0, repro_ids0)

RECURSIVE InsertDescending(_, _)
\* v placed into a descending sequence, after the elements equal to it.
InsertDescending(sorted, v) ==
    IF sorted = <<>> THEN <<v>>
    ELSE IF v > Head(sorted) THEN <<v>> \o sorted
    ELSE <<Head(sorted)>> \o InsertDescending(Tail(sorted), v)

RECURSIVE InsertAscending(_, _)
InsertAscending(sorted, v) ==
    IF sorted = <<>> THEN <<v>>
    ELSE IF v < Head(sorted) THEN <<v>> \o sorted
    ELSE <<Head(sorted)>> \o InsertAscending(Tail(sorted), v)

RECURSIVE SortAscending(_)
\* the sort with the comparison the other way round: dead_indices.sort()
SortAscending(seq) ==
    IF seq = <<>> THEN <<>>
    ELSE InsertAscending(SortAscending(SubSeq(seq, 1, Len(seq) - 1)), seq[Len(seq)])

RECURSIVE SortDescending(_)
\* dead_indices.sort_by(|a, b| b.cmp(a))
SortDescending(seq) ==
    IF seq = <<>> THEN <<>>
    ELSE InsertDescending(SortDescending(SubSeq(seq, 1, Len(seq) - 1)), seq[Len(seq)])

RECURSIVE Dedup(_)
\* Vec::dedup: of each run of equal consecutive elements the first is kept.
Dedup(seq) ==
    IF Len(seq) <= 1 THEN seq
    ELSE IF seq[1] = seq[2] THEN Dedup(Tail(seq))
    ELSE <<seq[1]>> \o Dedup(Tail(seq))

\* Vec::remove(index), index 0-based and in range
Remove(seq, index) == SubSeq(seq, 1, index) \o SubSeq(seq, index + 2, Len(seq))

RECURSIVE RemoveLoop(_, _, _)
\* lib.rs 291-297: `for index in dead_indices { if index < len { remove;
\* push Death } }`
RemoveLoop(cs, indices, events0) ==
    IF indices = <<>> THEN [creatures |-> cs, events |-> events0]
    ELSE IF Head(indices) < Len(cs)
    THEN RemoveLoop(Remove(cs, Head(indices)), Tail(indices),
                    Append(events0, Death(cs[Head(indices) + 1].id)))
    ELSE RemoveLoop(cs, Tail(indices), events0)

\* Pass 2 (lib.rs 287-297): sort descending, dedup, remove.
ProcessDeaths(cs, dead_indices0, events0) ==
    RemoveLoop(cs, Dedup(SortDescending(dead_indices0)), events0)

\* creatures.iter_mut().find(|c| c.id == p_id): the 1-based place of the
\* first creature with that id, 0 when there is none.
FindById(cs, p_id) ==
    IF \E k \in 1..Len(cs) : cs[k].id = p_id
    THEN CHOOSE k \in 1..Len(cs) :
             /\ cs[k].id = p_id
             /\ \A j \in 1..(k - 1) : cs[j].id # p_id
    ELSE 0

\* lib.rs 318-328: the child built for `parent` (already debited) from the
\* mutated copy of its genome.
Child(parent, child_id, child_genome) ==
    [ id        |-> child_id,
      genome    |-> child_genome,
      phenotype |-> Decode(child_genome),
      pos       |-> parent.pos,
      energy    |-> SplitCost,
      alive     |-> TRUE ]

\* the allocation without `self.next_id += 1`
AllocateIdNoAdvance(next_id0) == [id |-> next_id0, next_id |-> next_id0]

\* lib.rs 318-319: `let child_id = self.next_id; self.next_id += 1;`
\* (a u64; the model never comes near 2^64 births).
AllocateId(next_id0) == [id |-> next_id0, next_id |-> next_id0 + 1]

\* the birth with its event put at the front of the tick's list
GiveBirthEventFirst(acc, k, parent, m, alloc) ==
    [ creatures |-> [acc.creatures EXCEPT ![k] = parent],
      offspring |-> Append(acc.offspring, Child(parent, alloc.id, m.genome)),
      rng       |-> m.rng,
      next_id   |-> alloc.next_id,
      events    |-> <<Birth(parent.id)>> \o acc.events ]

\* lib.rs 312-331 for the parent at place k (1-based), already debited, m
\* being the mutated copy of its genome with the generator state, alloc the
\* id allocated.
GiveBirth(acc, k, parent, m, alloc) ==
    [ creatures |-> [acc.creatures EXCEPT ![k] = parent],
      offspring |-> Append(acc.offspring, Child(parent, alloc.id, m.genome)),
      rng       |-> m.rng,
      next_id   |-> alloc.next_id,
      events    |-> Append(acc.events, Birth(parent.id)) ]

\* the split without the test of the parent's energy
SplitUnguarded(acc, k) ==
    GiveBirth(acc, k, [acc.creatures[k] EXCEPT !.energy = @ - SplitCost],
              Mutate(acc.creatures[k].genome, acc.rng), AllocateId(acc.next_id))

\* lib.rs 312-313: `if parent.energy > split_cost { parent.energy -= split_cost`
Split(acc, k) ==
    IF acc.creatures[k].energy > SplitCost
    THEN GiveBirth(acc, k, [acc.creatures[k] EXCEPT !.energy = @ - SplitCost],
                   Mutate(acc.creatures[k].genome, acc.rng), AllocateId(acc.next_id))
    ELSE acc

\* The body of pass 3 for one id of repro_ids (lib.rs 306-333), on the
\* accumulated [creatures, offspring, rng, next_id, events]; k is what find
\* returned.
Reproduce(acc, k) == IF k = 0 THEN acc ELSE Split(acc, k)

RECURSIVE BirthLoop(_, _)
\* `for p_id in repro_ids`
BirthLoop(acc, ids) ==
    IF ids = <<>> THEN acc
    ELSE BirthLoop(Reproduce(acc, FindById(acc.creatures, Head(ids))), Tail(ids))

\* the end of pass 3 without `self.creatures.append(&mut offspring)`
OffspringNotAppended(b) ==
    [creatures |-> b.creatures, rng |-> b.rng,
     next_id |-> b.next_id, events |-> b.events]

\* lib.rs 336: creatures.append(&mut offspring)
AppendOffspring(b) ==
    [creatures |-> b.creatures \o b.offspring, rng |-> b.rng,
     next_id |-> b.next_id, events |-> b.events]

\* Pass 3 (lib.rs 299-336)
ProcessBirths(cs, repro_ids0, state, next_id0, events0) ==
    AppendOffspring(BirthLoop([creatures |-> cs, offspring |-> <<>>, rng |-> state,
                               next_id |-> next_id0, events |-> events0], repro_ids0))

\* the outcome without `self.tick_count += 1`
TickOutcomeUncounted(w, p1, p3) ==
    [ size         |-> w.size,
      creatures    |-> p3.creatures,
      tick_count   |-> w.tick_count,
      rng          |-> p3.rng,
      next_id      |-> p3.next_id,
      events       |-> p3.events,
      dead_indices |-> p1.dead_indices,
      repro_ids    |-> p1.repro_ids,
      analysed     |-> [creatures |-> p1.creatures, rng |-> p1.rng] ]

\* What tick() leaves and returns, p1 being the result of pass 1 and p3 that
\* of pass 3.
TickOutcome(w, p1, p3) ==
    [ size         |-> w.size,
      creatures    |-> p3.creatures,
      tick_count   |-> w.tick_count + 1,
      rng          |-> p3.rng,
      next_id      |-> p3.next_id,
      events       |-> p3.events,
      dead_indices |-> p1.dead_indices,
      repro_ids    |-> p1.repro_ids,
      analysed     |-> [creatures |-> p1.creatures, rng |-> p1.rng] ]

\* pass 3 after pass 2 (p2)
BirthsAfter(w, p1, p2) ==
    TickOutcome(w, p1, ProcessBirths(p2.creatures, p1.repro_ids, p1.rng, w.next_id, p2.events))

\* pass 2 after pass 1 (p1); `events` starts empty
DeathsAfter(w, p1) ==
    BirthsAfter(w, p1, ProcessDeaths(p1.creatures, p1.dead_indices, <<>>))

\* t with the creatures and the generator the pass a left
AfterOffspringPass(t, a) == [t EXCEPT !.creatures = a.creatures, !.rng = a.rng]

\* the tick outcome t of the world w, with the analysis pass run once more
\* over the agents born in the tick
OffspringPass(w, t) ==
    AfterOffspringPass(t, AnalysisPass(t.creatures, t.rng, t.tick_count, w.size,
                                       Len(t.creatures) - (t.next_id - w.next_id),
                                       <<>>, <<>>))

\* the tick in which the offspring are analysed in the tick of their birth
TickResultOffspringAnalysed(w) ==
    OffspringPass(w, DeathsAfter(w, AnalysisPass(w.creatures, w.rng, w.tick_count + 1,
                                                 w.size, 0, <<>>, <<>>)))

\* World::tick on the world w = [size, creatures, tick_count, rng, next_id]:
\* the world afterwards, the events returned, and what pass 1 built and left.
TickResult(w) ==
    DeathsAfter(w, AnalysisPass(w.creatures, w.rng, w.tick_count + 1, w.size, 0, <<>>, <<>>))

\* ------------------------------------------------------------------
\* The state
\* ------------------------------------------------------------------

VARIABLES
    size,          \* World::size
    creatures,     \* World::creatures
    tick_count,    \* World::tick_count
    rng,           \* World::rng (its state)
    next_id,       \* World::next_id
    events,        \* the Vec<Event> the last tick() returned
    dead_indices,  \* tick()'s dead_indices as pass 1 of the last tick left it
    repro_ids,     \* tick()'s repro_ids as pass 1 of the last tick left it
    pushed,        \* the ids of the agents the driver pushed, in order
    move_target,   \* the target of the driver's last move_to call
    move_result,   \* what that call returned
    moves,         \* how many move_to calls the driver has made
    before,        \* the world as the last tick() found it
    analysed,      \* the creatures and the generator as pass 1 of it left them
    gray_v,        \* the word whose Gray code gray_decode is given
    gray_n,        \* gray_decode's n
    gray_p,        \* gray_decode's p
    drawn          \* the values next_u64 returned, in order

\* the variables of the codec's and the generator's own runs
pureVars == <<gray_v, gray_n, gray_p, drawn>>

vars == <<size, creatures, tick_count, rng, next_id, events, dead_indices,
          repro_ids, pushed, move_target, move_result, moves, before, analysed,
          gray_v, gray_n, gray_p, drawn>>

World == [size |-> size, creatures |-> creatures, tick_count |-> tick_count,
          rng |-> rng, next_id |-> next_id]

Zero32 == <<0, 0>>

\* no tick() call, no gray_decode call and no draw has been made
Untouched ==
    /\ before = World
    /\ analysed = [creatures |-> <<>>, rng |-> rng]
    /\ gray_v = Zero32
    /\ gray_n = Zero32
    /\ gray_p = Zero32
    /\ drawn = <<>>

\* ------------------------------------------------------------------
\* Bounds and inputs of the model
\* ------------------------------------------------------------------

\* tick() calls per run
MaxTick == 14

\* agents the driver pushes before the first tick
MaxPush == 2

\* grid size of the worlds built
WorldSize == 3

\* move_to calls the driver makes on one agent
MaxMoves == 3

\* indices handed to the death cleanup pass
MaxMarks == 3

\* the seeds given to World::new: 42 (the demo's), and 23, under which the
\* first reproduction flips a genome bit
WorldSeeds == {U64(42), U64(23)}

\* Genome::from_seed(58): body mass 99.6, bmr 1.09
HeavyGenome == FromSeed(U64(58))

\* Genome::from_seed(39): body mass 2.9, bmr 1.69
LightGenome == FromSeed(U64(39))

Origin == [x |-> 0, y |-> 0]

Corner == [x |-> WorldSize - 1, y |-> WorldSize - 1]

\* The agents a driver pre-builds: Simulacrum::new, and (every field is pub)
\* agents with the energy lowered or the liveness flag cleared.
Prebuilt ==
    { SimulacrumNew(1, HeavyGenome, Origin),
      SimulacrumNew(2, LightGenome, Origin),
      [SimulacrumNew(2, HeavyGenome, Origin) EXCEPT !.energy = 4 * Scale],
      [SimulacrumNew(3, LightGenome, Origin) EXCEPT !.alive = FALSE],
      [SimulacrumNew(1, LightGenome, Corner) EXCEPT !.energy = 60 * Scale] }

\* The coordinates a driver passes to move_to: inside the grid, just outside
\* it, and the largest u16.
MoveCoordinates == (0..WorldSize) \cup {65535}

MoveTargets == {[x |-> a, y |-> b] : a \in MoveCoordinates, b \in MoveCoordinates}

\* ------------------------------------------------------------------
\* Spec: a world driven by pushes and ticks
\* ------------------------------------------------------------------

\* World::new(size, seed)
Init ==
    /\ size = WorldSize
    /\ creatures = <<>>
    /\ tick_count = 0
    /\ rng \in {RngNew(seed) : seed \in WorldSeeds}
    /\ next_id = 1
    /\ events = <<>>
    /\ dead_indices = <<>>
    /\ repro_ids = <<>>
    /\ pushed = <<>>
    /\ move_target = None
    /\ move_result = None
    /\ moves = 0
    /\ Untouched

\* world.creatures.push(agent), before the first tick
Push(agent) ==
    /\ tick_count = 0
    /\ Len(creatures) < MaxPush
    /\ creatures' = Append(creatures, agent)
    /\ pushed' = Append(pushed, agent.id)
    /\ UNCHANGED <<size, tick_count, rng, next_id, events, dead_indices,
                   repro_ids, move_target, move_result, moves, before, analysed,
                   pureVars>>

\* world.tick()
Tick ==
    /\ tick_count < MaxTick
    /\ \E t \in {TickResult(World)} :
           /\ creatures' = t.creatures
           /\ tick_count' = t.tick_count
           /\ rng' = t.rng
           /\ next_id' = t.next_id
           /\ events' = t.events
           /\ dead_indices' = t.dead_indices
           /\ repro_ids' = t.repro_ids
           /\ analysed' = t.analysed
    /\ before' = World
    /\ UNCHANGED <<size, pushed, move_target, move_result, moves, pureVars>>

Next ==
    \/ \E agent \in Prebuilt : Push(agent)
    \/ Tick

Spec == Init /\ [][Next]_vars

\* ------------------------------------------------------------------
\* SpecMove: a driver calling move_to on the one agent of a world
\* ------------------------------------------------------------------

InitMove ==
    /\ size = WorldSize
    /\ \E agent \in Prebuilt : creatures = <<agent>> /\ pushed = <<agent.id>>
    /\ tick_count = 0
    /\ rng \in {RngNew(seed) : seed \in WorldSeeds}
    /\ next_id = 1
    /\ events = <<>>
    /\ dead_indices = <<>>
    /\ repro_ids = <<>>
    /\ move_target = None
    /\ move_result = None
    /\ moves = 0
    /\ Untouched

\* world.creatures[0].move_to(target, world.size)
DriverMove(target) ==
    /\ moves < MaxMoves
    /\ \E m \in {MoveTo(creatures[1], target, size)} :
           /\ creatures' = <<m.agent>>
           /\ move_result' = m.event
    /\ move_target' = target
    /\ moves' = moves + 1
    /\ UNCHANGED <<size, tick_count, rng, next_id, events, dead_indices,
                   repro_ids, pushed, before, analysed, pureVars>>

NextMove == \E target \in MoveTargets : DriverMove(target)

SpecMove == InitMove /\ [][NextMove]_vars

\* ------------------------------------------------------------------
\* SpecCleanup: the death cleanup pass on any population and any marks
\* ------------------------------------------------------------------

\* the sequences over S of length at most n
RECURSIVE SeqUpTo(_, _)
SeqUpTo(S, n) ==
    IF n = 0 THEN {<<>>}
    ELSE SeqUpTo(S, n - 1) \cup {Append(q, e) : q \in SeqUpTo(S, n - 1), e \in S}

InitCleanup ==
    /\ size = WorldSize
    /\ creatures \in SeqUpTo(Prebuilt, MaxPush + 1)
    /\ dead_indices \in SeqUpTo(0..(Len(creatures) - 1), MaxMarks)
    /\ tick_count = 0
    /\ rng \in {RngNew(seed) : seed \in WorldSeeds}
    /\ next_id = 1
    /\ events = <<>>
    /\ repro_ids = <<>>
    /\ pushed = <<>>
    /\ move_target = None
    /\ move_result = None
    /\ moves = 0
    /\ Untouched

\* pass 2 of tick() on the population and the marks, once
Cleanup ==
    /\ dead_indices # <<>>
    /\ events = <<>>
    /\ \E d \in {ProcessDeaths(creatures, dead_indices, <<>>)} :
           /\ creatures' = d.creatures
           /\ events' = d.events
    /\ UNCHANGED <<size, tick_count, rng, next_id, dead_indices, repro_ids,
                   pushed, move_target, move_result, moves, before, analysed,
                   pureVars>>

NextCleanup == Cleanup

SpecCleanup == InitCleanup /\ [][NextCleanup]_vars

\* ------------------------------------------------------------------
\* Properties of the ticking world (Spec)
\* ------------------------------------------------------------------

IsDeath(e) == e.type = "Death"

IsBirth(e) == e.type = "Birth"

\* a step of the run is a tick() call
TickStep == tick_count' = tick_count + 1

\* how many events of the list satisfy the test
Count(list, Test(_)) == Cardinality({i \in DOMAIN list : Test(list[i])})

\* the Birth events of the tick just made, in order
BirthsNow == SelectSeq(events', IsBirth)

\* the j-th agent born in the tick just made: the offspring are the tail of
\* the population
Newborn(j) == creatures'[Len(creatures') - Len(BirthsNow) + j]

\* the ids of the population before the step
IdsBefore == {creatures[i].id : i \in DOMAIN creatures}

\* the 0-based indices pass 1 of the tick just made marked
MarkedNow == {dead_indices'[d] : d \in DOMAIN dead_indices'}

\* where the agent at the 1-based place i, not marked, is after the cleanup
PlaceAfter(i) == i - Cardinality({d \in MarkedNow : d + 1 < i})

RECURSIVE Draws(_, _)
RECURSIVE DrawsRest(_, _)
\* the generator state after n draws
Draws(state, n) ==
    IF n = 0 THEN state
    ELSE IF n = 1 THEN NextU64(state)
    ELSE DrawsRest(Draws(state, n \div 2), n - n \div 2)

DrawsRest(mid, n) == IF mid[1] >= 0 THEN Draws(mid, n) ELSE mid

\* C1: in the event list a tick() call returns, every Death event comes
\* before every Birth event.
DeathsPrecedeBirths ==
    \A i, j \in DOMAIN events :
        IsDeath(events[i]) /\ IsBirth(events[j]) => i < j

\* a tick has returned a list holding a Death and a Birth
DeathAndBirthInOneTick ==
    /\ tick_count > 0
    /\ \E i, j \in DOMAIN events : IsDeath(events[i]) /\ IsBirth(events[j])

\* C2: when the driver pushed agents with pairwise distinct ids, no two
\* agents of the population share an id.
IdsUnique ==
    (\A i, j \in DOMAIN pushed : i # j => pushed[i] # pushed[j])
        => \A i, j \in DOMAIN creatures : i # j => creatures[i].id # creatures[j].id

\* C3: next_id never decreases; the j-th agent born in a tick has the id
\* next_id had when it was created, which is next_id at the start of the
\* tick plus the j - 1 ids allocated before it; and next_id ends above every
\* id allocated, so that no id is allocated again in a later tick.
IdsAllocatedInOrder ==
    [][ /\ next_id' >= next_id
        /\ TickStep =>
              /\ \A j \in 1..Len(BirthsNow) : Newborn(j).id = next_id + (j - 1)
              /\ next_id' >= next_id + Len(BirthsNow) ]_vars

\* the last tick made a birth, and an id the world allocated before is of no
\* agent of the population any more: its holder has died and been removed
BirthAfterHolderDied ==
    /\ Count(events, IsBirth) >= 1
    /\ \E id \in 1..(next_id - 1) :
           /\ id \notin {creatures[i].id : i \in DOMAIN creatures}
           /\ \A k \in DOMAIN pushed : pushed[k] # id

\* C4: the agents born in a tick take no part in it. They are the tail of
\* the population, appended after the survivors; each has exactly the split
\* energy and stands where its parent stands (no gain, no debit, no move);
\* the generator made exactly two draws per live agent of the population
\* the tick started with and 512 per birth (none for a newborn's analysis);
\* every index marked dead and every id marked eligible is of the
\* population the tick started with, and so is every parent of a Birth.
NewbornsSitOut ==
    [][ TickStep =>
          /\ Len(creatures') =
                 Len(creatures) - Count(events', IsDeath) + Len(BirthsNow)
          /\ \A j \in 1..Len(BirthsNow) :
                 /\ Newborn(j).energy = SplitCost
                 /\ Newborn(j).alive
                 /\ Newborn(j).pos =
                        creatures'[FindById(creatures', BirthsNow[j].parent_id)].pos
                 /\ BirthsNow[j].parent_id \in IdsBefore
                 /\ FindById(creatures', BirthsNow[j].parent_id)
                        <= Len(creatures') - Len(BirthsNow)
          /\ rng' = Draws(rng, 2 * Count(creatures, LAMBDA c : c.alive)
                                 + 8 * GenomeLen * Len(BirthsNow))
          /\ \A d \in MarkedNow : d < Len(creatures)
          /\ Len(repro_ids') <= Len(creatures)
          /\ \A r \in DOMAIN repro_ids' : repro_ids'[r] \in IdsBefore ]_vars

\* a tick has made a birth
BirthInLastTick ==
    /\ tick_count > 0
    /\ Count(events, IsBirth) >= 1
    /\ Len(creatures) >= 2

\* C5: when tick() has returned, every agent of the population is flagged
\* alive and has energy strictly above zero.
NoDeadAfterTick ==
    tick_count > 0 =>
        \A i \in DOMAIN creatures : creatures[i].alive /\ creatures[i].energy > 0

\* a tick has removed an agent and left others
DeathInLastTick ==
    /\ tick_count > 0
    /\ dead_indices # <<>>
    /\ Count(events, IsDeath) >= 1
    /\ creatures # <<>>

\* C9: every agent of the population, the newborn included, has both
\* coordinates in [0, size), and over a tick the x and the y of an agent
\* that stays each change by at most 1.
InGrid(pos) == pos.x \in 0..(size - 1) /\ pos.y \in 0..(size - 1)

Near(a, b) == a - b \in {-1, 0, 1}

PositionsStayInGrid ==
    [][ /\ \A i \in DOMAIN creatures' : InGrid(creatures'[i].pos)
        /\ TickStep =>
              \A i \in DOMAIN creatures :
                  (i - 1) \notin MarkedNow =>
                      /\ Near(creatures'[PlaceAfter(i)].pos.x, creatures[i].pos.x)
                      /\ Near(creatures'[PlaceAfter(i)].pos.y, creatures[i].pos.y) ]_vars

\* an agent stands on the last row and the last column of the grid after a
\* tick, and another one elsewhere
AgentAtTheEdge ==
    /\ tick_count > 0
    /\ \E i, j \in DOMAIN creatures :
           /\ creatures[i].pos = Corner
           /\ creatures[j].pos # Corner

\* ------------------------------------------------------------------
\* Properties of the death cleanup pass (SpecCleanup)
\* ------------------------------------------------------------------

\* the 0-based indices handed to the pass
Marks == {dead_indices[d] : d \in DOMAIN dead_indices}

\* where the agent at the 1-based place i, not marked, has to be afterwards
PlaceKept(i) == i - Cardinality({d \in Marks : d + 1 < i})

\* the ids of the agents at the marked places
MarkedIds == {creatures[d + 1].id : d \in Marks}

\* C6: the cleanup pass removes exactly the agents at the marked indices,
\* each once: the population afterwards is the one before without the
\* marked agents, the others in their order, and the events are Death events,
\* as many with each id as there are marked agents with that id.
CleanupRemovesExactlyMarked ==
    [][ /\ Len(creatures') = Len(creatures) - Cardinality(Marks)
        /\ \A i \in DOMAIN creatures :
               (i - 1) \notin Marks => creatures'[PlaceKept(i)] = creatures[i]
        /\ Len(events') = Cardinality(Marks)
        /\ \A e \in DOMAIN events' : IsDeath(events'[e])
        /\ \A id \in MarkedIds :
               Count(events', LAMBDA ev : ev.id = id)
                   = Cardinality({d \in Marks : creatures[d + 1].id = id}) ]_vars

\* the pass has run on marks given in ascending order with one of them
\* repeated, and has left an agent
CleanupOfUnsortedRepeatedMarks ==
    /\ events # <<>>
    /\ Len(dead_indices) = 3
    /\ dead_indices[1] < dead_indices[2]
    /\ dead_indices[3] = dead_indices[1]
    /\ creatures # <<>>

\* ------------------------------------------------------------------
\* Properties of move_to (SpecMove)
\* ------------------------------------------------------------------

\* C7: in every state the caller observes, every agent's energy is at
\* least zero.
EnergyNeverNegative ==
    \A i \in DOMAIN creatures : creatures[i].energy >= 0

\* a step of the run is a move_to call
MoveStep == moves' = moves + 1

\* C8: a move_to call whose target has x or y outside [0, size) returns None
\* and leaves every field of the agent as it was; a call whose target is
\* inside returns the Move event of the agent to the target, which is not
\* None, and the agent stands on the target.
MoveOutsideRejected ==
    [][ MoveStep =>
          IF InGrid(move_target')
          THEN /\ move_result' = Move(creatures[1].id, move_target'.x, move_target'.y)
               /\ move_result' # None
               /\ creatures'[1].pos = move_target'
          ELSE /\ move_result' = None
               /\ creatures' = creatures ]_vars

\* after a move that was accepted, a move to the first column outside the
\* grid has returned None
MoveJustOutsideRejected ==
    /\ moves >= 2
    /\ creatures[1].pos # Origin
    /\ move_target.x = size
    /\ move_target.y < size
    /\ move_result = None

\* ------------------------------------------------------------------
\* Properties of one tick, read off the world before it, what pass 1 left
\* and the world after it (Spec)
\* ------------------------------------------------------------------

\* a tick() call has been made
Ticked == tick_count > 0

\* the Birth events of the last tick, in order
Births == SelectSeq(events, IsBirth)

\* the agents pass 1 left that the cleanup pass keeps, by their 1-based place
\* in the population pass 1 left
Survivors == {i \in DOMAIN analysed.creatures : (i - 1) \notin Marks}

\* the population after the cleanup pass is as long as this
SurvivorCount == Len(creatures) - Len(Births)

\* the agent at place q is the one a lookup by its id finds
FoundById(q) == \A j \in 1..(q - 1) : creatures[j].id # creatures[q].id

\* how often pass 1 marked the id eligible
Eligible(id) == Cardinality({r \in DOMAIN repro_ids : repro_ids[r] = id})

\* how many Birth events of the last tick name the id as parent
BirthsBy(id) == Cardinality({b \in DOMAIN Births : Births[b].parent_id = id})

\* the births of the agent at place q: those of its id when the lookup finds
\* it, none otherwise
BirthsOf(q) == IF FoundById(q) THEN BirthsBy(creatures[q].id) ELSE 0

\* the lookups of the agent at place q in pass 3
LookupsOf(q) == IF FoundById(q) THEN Eligible(creatures[q].id) ELSE 0

RECURSIVE SumEnergy(_)
\* the energy of the agents of cs together
SumEnergy(cs) == IF cs = <<>> THEN 0 ELSE Head(cs).energy + SumEnergy(Tail(cs))

RECURSIVE KeptEnergy(_)
\* the energy pass 1 left to those of its first n agents that the cleanup
\* pass keeps
KeptEnergy(n) ==
    IF n = 0 THEN 0
    ELSE KeptEnergy(n - 1)
         + (IF (n - 1) \in Marks THEN 0 ELSE analysed.creatures[n].energy)

\* C11: every birth of a tick finds its parent with more than the split
\* cost and takes exactly the split cost from it, nothing else of the parent
\* changing; the child has exactly the split cost and stands where the
\* parent stands; a parent looked up with no more than the split cost left
\* stays as it is and has no Birth event; and the energy of the population
\* after the tick is the energy of the agents the cleanup pass kept.
BirthsConserveEnergy ==
    Ticked =>
        /\ \A i \in Survivors :
               /\ creatures[PlaceKept(i)] =
                      [analysed.creatures[i] EXCEPT
                           !.energy = @ - BirthsOf(PlaceKept(i)) * SplitCost]
               /\ BirthsOf(PlaceKept(i)) > 0 =>
                      analysed.creatures[i].energy > BirthsOf(PlaceKept(i)) * SplitCost
               /\ BirthsOf(PlaceKept(i)) <= LookupsOf(PlaceKept(i))
               /\ BirthsOf(PlaceKept(i)) < LookupsOf(PlaceKept(i)) =>
                      creatures[PlaceKept(i)].energy <= SplitCost
        /\ \A b \in DOMAIN Births :
               /\ creatures[SurvivorCount + b].energy = SplitCost
               /\ creatures[SurvivorCount + b].pos =
                      creatures[FindById(creatures, Births[b].parent_id)].pos
        /\ SumEnergy(creatures) = KeptEnergy(Len(analysed.creatures))

\* a tick has made a birth, and has looked up a parent that had no more than
\* the split cost and made none for it
BirthAndRefusedSplit ==
    /\ Ticked
    /\ Births # <<>>
    /\ \E q \in 1..SurvivorCount : BirthsOf(q) < LookupsOf(q)

\* C12: every tick() call (a step that is no push) adds exactly 1 to
\* tick_count, and on an empty population it returns no event and leaves the
\* population empty and the generator and next_id as they were.
TickCountsOne ==
    [][ pushed' = pushed =>
          /\ tick_count' = tick_count + 1
          /\ creatures = <<>> =>
                 /\ events' = <<>>
                 /\ creatures' = <<>>
                 /\ rng' = rng
                 /\ next_id' = next_id ]_vars

\* an empty world has been ticked twice
EmptyWorldTicked ==
    /\ tick_count >= 2
    /\ before.creatures = <<>>
    /\ creatures = <<>>
    /\ events = <<>>

\* ------------------------------------------------------------------
\* SpecAged: a world ticking with one agent whose lifespan is short
\* ------------------------------------------------------------------

\* the lifespans, in ticks, the driver writes into phenotype.max_lifespan
ShortLifespans == {0, 1, 2}

\* the agent with phenotype.max_lifespan set (the field is pub)
WithLifespan(agent, ticks) == [agent EXCEPT !.phenotype.max_lifespan = ticks * Scale]

InitAged ==
    /\ size = WorldSize
    /\ \E agent \in Prebuilt : \E ticks \in ShortLifespans :
           /\ creatures = <<WithLifespan(agent, ticks)>>
           /\ pushed = <<agent.id>>
    /\ tick_count = 0
    /\ rng \in {RngNew(seed) : seed \in WorldSeeds}
    /\ next_id = 1
    /\ events = <<>>
    /\ dead_indices = <<>>
    /\ repro_ids = <<>>
    /\ move_target = None
    /\ move_result = None
    /\ moves = 0
    /\ Untouched

NextAged == Tick

SpecAged == InitAged /\ [][NextAged]_vars

\* C13: an agent whose lifespan counter is at or below zero when a tick
\* starts (its max lifespan is no more than the ticks made before) is
\* debited 1.5 times its bmr in that tick: pass 1 leaves it with its energy
\* plus the gain, less 1.5 bmr, less the cost of the move it made.
SenescentDebit ==
    Ticked =>
        \A i \in DOMAIN before.creatures :
            /\ before.creatures[i].alive
            /\ before.creatures[i].phenotype.max_lifespan <= before.tick_count * Scale
            => analysed.creatures[i].energy =
                   before.creatures[i].energy
                   + CalculateEnergy(tick_count, before.creatures[i].pos)
                   - (3 * before.creatures[i].phenotype.bmr) \div 2
                   - MoveCost(before.creatures[i].phenotype.body_mass,
                              DistSquared(before.creatures[i].pos,
                                          analysed.creatures[i].pos))

\* ------------------------------------------------------------------
\* SpecCrossover: a driver breeding the two agents of a world
\* ------------------------------------------------------------------

\* the genomes of the parents
BreedingGenomes == {HeavyGenome, LightGenome, FromSeed(U64(0)), FromSeed(U64(1))}

\* the seeds of the generator the masks are drawn from
CrossoverSeeds == WorldSeeds \cup {U64(0)}

InitCrossover ==
    /\ size = WorldSize
    /\ \E a \in BreedingGenomes : \E b \in BreedingGenomes :
           creatures = <<SimulacrumNew(1, a, Origin), SimulacrumNew(2, b, Corner)>>
    /\ pushed = <<1, 2>>
    /\ tick_count = 0
    /\ rng \in {RngNew(seed) : seed \in CrossoverSeeds}
    /\ next_id = 1
    /\ events = <<>>
    /\ dead_indices = <<>>
    /\ repro_ids = <<>>
    /\ move_target = None
    /\ move_result = None
    /\ moves = 0
    /\ Untouched

\* let g = creatures[0].genome.crossover(&creatures[1].genome, &mut rng);
\* creatures.push(Simulacrum::new(3, g, start_pos))
Breed(endian) ==
    /\ Len(creatures) = 2
    /\ \E x \in {Crossover(creatures[1].genome, creatures[2].genome, rng, endian)} :
           /\ creatures' = Append(creatures, SimulacrumNew(3, x.genome, Origin))
           /\ rng' = x.rng
    /\ pushed' = Append(pushed, 3)
    /\ UNCHANGED <<size, tick_count, next_id, events, dead_indices, repro_ids,
                   move_target, move_result, moves, before, analysed, pureVars>>

NextCrossover == \E endian \in Endians : Breed(endian)

SpecCrossover == InitCrossover /\ [][NextCrossover]_vars

\* C14: the child of a crossover has 64 bytes, each of its 512 bits is the
\* bit of the one parent or of the other at the same place (the bit of both
\* where they agree), the call makes exactly eight draws, and both parents
\* are as they were.
CrossoverPicksParentBits ==
    [][ Len(creatures') = 3 /\ Len(creatures) = 2 =>
          /\ Len(creatures'[3].genome) = GenomeLen
          /\ \A k \in 1..GenomeLen : \A bit \in 0..7 :
                 /\ BitOf(creatures'[3].genome[k], bit)
                        \in { BitOf(creatures[1].genome[k], bit),
                              BitOf(creatures[2].genome[k], bit) }
                 /\ BitOf(creatures[1].genome[k], bit)
                        = BitOf(creatures[2].genome[k], bit)
                    => BitOf(creatures'[3].genome[k], bit)
                           = BitOf(creatures[1].genome[k], bit)
          /\ rng' = Draws(rng, 8)
          /\ creatures'[1] = creatures[1]
          /\ creatures'[2] = creatures[2] ]_vars

\* a child has been bred from two different parents and is neither
ChildOfBothParents ==
    /\ Len(creatures) = 3
    /\ pushed = <<1, 2, 3>>
    /\ creatures[1].genome # creatures[2].genome
    /\ creatures[3].genome # creatures[1].genome
    /\ creatures[3].genome # creatures[2].genome

\* ------------------------------------------------------------------
\* SpecGray: gray_decode run iteration by iteration on the Gray code of a word
\* ------------------------------------------------------------------

\* the 16-bit halves the words are made of
GrayHalves == {0, 1, 2, 3, 255, 256, 4660, 21845, 32767, 32768, 43690, 65535}

GrayWords == {<<lo, hi>> : lo \in GrayHalves, hi \in GrayHalves}

\* the reflected-binary Gray code of v: v ^ (v >> 1)
GrayEncode(v) == Xor32(v, ShiftRight1(v))

\* gray_decode(n) entered with n the Gray code of gray_v: `let mut p = n;`
InitGray ==
    /\ size = WorldSize
    /\ creatures = <<>>
    /\ tick_count = 0
    /\ rng \in {RngNew(seed) : seed \in WorldSeeds}
    /\ next_id = 1
    /\ events = <<>>
    /\ dead_indices = <<>>
    /\ repro_ids = <<>>
    /\ pushed = <<>>
    /\ move_target = None
    /\ move_result = None
    /\ moves = 0
    /\ before = World
    /\ analysed = [creatures |-> <<>>, rng |-> rng]
    /\ gray_v \in GrayWords
    /\ gray_n = GrayEncode(gray_v)
    /\ gray_p = gray_n
    /\ drawn = <<>>

\* while p > 0 { p >>= 1; n ^= p; }: one iteration
GrayStep ==
    /\ NonZero32(gray_p)
    /\ \E r \in {GrayStepResult(gray_n, gray_p)} :
           /\ gray_n' = r.n
           /\ gray_p' = r.p
    /\ UNCHANGED <<size, creatures, tick_count, rng, next_id, events, dead_indices,
                   repro_ids, pushed, move_target, move_result, moves, before,
                   analysed, gray_v, drawn>>

NextGray == GrayStep

\* the loop is the only thing running: an iteration that can be made is made
SpecGray == InitGray /\ [][NextGray]_vars /\ WF_vars(NextGray)

\* C15: gray_decode on the Gray code v ^ (v >> 1) of a word v leaves the
\* loop (p reaches 0), and when it has left it n is v; the closure as decode
\* calls it yields the same.
GrayDecodeInverts ==
    /\ <>(gray_p = Zero32)
    /\ [](gray_p = Zero32 =>
              /\ gray_n = gray_v
              /\ GrayDecode(GrayEncode(gray_v)) = gray_v)

\* the loop has run to its end on the code of the word with all 32 bits set
AllOnesDecoded ==
    /\ gray_v = <<65535, 65535>>
    /\ gray_p = Zero32
    /\ gray_n = gray_v

\* ------------------------------------------------------------------
\* SpecRng: a generator drawn from again and again
\* ------------------------------------------------------------------

\* next_u64 calls per run
MaxDraws == 25

\* the seeds given to Rng::new: zero, one, the world seeds, and the largest u64
RngSeeds == {U64(0), U64(1), <<255, 255, 255, 255, 255, 255, 255, 255>>} \cup WorldSeeds

InitRng ==
    /\ size = WorldSize
    /\ creatures = <<>>
    /\ tick_count = 0
    /\ rng \in {RngNew(seed) : seed \in RngSeeds}
    /\ next_id = 1
    /\ events = <<>>
    /\ dead_indices = <<>>
    /\ repro_ids = <<>>
    /\ pushed = <<>>
    /\ move_target = None
    /\ move_result = None
    /\ moves = 0
    /\ Untouched

\* rng.next_u64(): the state is advanced and returned
Draw ==
    /\ Len(drawn) < MaxDraws
    /\ rng' = NextU64(rng)
    /\ drawn' = Append(drawn, NextU64(rng))
    /\ UNCHANGED <<size, creatures, tick_count, next_id, events, dead_indices,
                   repro_ids, pushed, move_target, move_result, moves, before,
                   analysed, gray_v, gray_n, gray_p>>

NextRng == Draw

SpecRng == InitRng /\ [][NextRng]_vars

RECURSIVE TimesSmall(_, _, _, _)
\* the bytes i..8 of x * k + carry (mod 2^64), for a small k
TimesSmall(x, k, i, carry) ==
    IF i > 8 THEN <<>>
    ELSE <<(x[i] * k + carry) % 256>>
         \o TimesSmall(x, k, i + 1, (x[i] * k + carry) \div 256)

RECURSIVE Plus(_, _, _, _)
\* the bytes i..8 of x + y + carry (mod 2^64)
Plus(x, y, i, carry) ==
    IF i > 8 THEN <<>>
    ELSE <<(x[i] + y[i] + carry) % 256>>
         \o Plus(x, y, i + 1, (x[i] + y[i] + carry) \div 256)

RECURSIVE TimesDecimal(_, _, _)
\* acc * 10^Len(digits) + x * (the number the decimal digits write), mod 2^64
TimesDecimal(x, digits, acc) ==
    IF digits = <<>> \/ Len(acc) # 8 THEN acc     \* acc is a u64: 8 bytes
    ELSE TimesDecimal(x, Tail(digits),
                      Plus(TimesSmall(acc, 10, 1, 0),
                           TimesSmall(x, Head(digits), 1, 0), 1, 0))

\* 6364136223846793005
MultiplierDigits == <<6, 3, 6, 4, 1, 3, 6, 2, 2, 3, 8, 4, 6, 7, 9, 3, 0, 0, 5>>

\* 1442695040888963407
IncrementDigits == <<1, 4, 4, 2, 6, 9, 5, 0, 4, 0, 8, 8, 8, 9, 6, 3, 4, 0, 7>>

\* (state * 6364136223846793005 + 1442695040888963407) mod 2^64
Congruential(state) ==
    Plus(TimesDecimal(state, MultiplierDigits, U64(0)),
         TimesDecimal(U64(1), IncrementDigits, U64(0)), 1, 0)

\* C16: a next_u64 call sets the state to
\* (state * 6364136223846793005 + 1442695040888963407) mod 2^64 and returns
\* the new state, for the seed zero as for any other; the values returned are
\* therefore each the same function of the one before, whatever generator
\* made them.
NextIsCongruential ==
    [][ Len(drawn') = Len(drawn) + 1 =>
          /\ rng' = Congruential(rng)
          /\ drawn'[Len(drawn')] = rng'
          /\ \A k \in 2..Len(drawn') : drawn'[k] = Congruential(drawn'[k - 1]) ]_vars

\* the generator seeded with zero has returned the increment first, and has
\* been drawn from again
ZeroSeedDrawn ==
    /\ Len(drawn) >= 2
    /\ drawn[1] = TimesDecimal(U64(1), IncrementDigits, U64(0))
    /\ rng = drawn[Len(drawn)]

\* ------------------------------------------------------------------
\* More properties of one tick (Spec)
\* ------------------------------------------------------------------

\* the agents of cs have pairwise distinct ids
DistinctIds(cs) == \A i, j \in DOMAIN cs : i # j => cs[i].id # cs[j].id

\* the agents flagged alive when the last tick started
LiveBefore == {i \in DOMAIN before.creatures : before.creatures[i].alive}

\* C17: after a tick() call the population has the size it had before, less
\* the Death events returned, plus the Birth events returned, and next_id is
\* what it was plus the Birth events returned.
PopulationAccounting ==
    Ticked =>
        /\ Len(creatures) = Len(before.creatures) - Count(events, IsDeath) + Len(Births)
        /\ next_id = before.next_id + Len(Births)

\* a tick of a world that had allocated ids before has removed an agent and
\* made a birth
DeathAndBirthCounted ==
    /\ Ticked
    /\ before.next_id >= 2
    /\ Count(events, IsDeath) >= 1
    /\ Len(Births) >= 1

\* C18: in a tick of a population with pairwise distinct ids, every id
\* pass 1 marked eligible is the id of an agent the cleanup pass kept (the
\* lookup finds it), and no id is both in a Death event and the parent of a
\* Birth event.
EligibleParentsSurvive ==
    Ticked /\ DistinctIds(before.creatures) =>
        /\ \A r \in DOMAIN repro_ids :
               \E q \in 1..SurvivorCount : creatures[q].id = repro_ids[r]
        /\ \A d \in DOMAIN events : \A b \in DOMAIN events :
               IsDeath(events[d]) /\ IsBirth(events[b])
                   => events[d].id # events[b].parent_id

\* a tick of a population with distinct ids has removed an agent and made a
\* birth for another
DeathBesideBirth ==
    /\ Ticked
    /\ DistinctIds(before.creatures)
    /\ Len(before.creatures) >= 2
    /\ Count(events, IsDeath) >= 1
    /\ repro_ids # <<>>
    /\ Len(Births) >= 1

\* C19: in a tick of a population with pairwise distinct ids, an agent is
\* the parent of exactly one Birth when pass 1 left it unmarked with energy
\* above the reproduction threshold, and of none otherwise; there are no
\* other Birth events.
OneBirthPerEligible ==
    Ticked /\ DistinctIds(before.creatures) =>
        /\ \A i \in DOMAIN analysed.creatures :
               BirthsBy(analysed.creatures[i].id) =
                   IF i \in Survivors /\ analysed.creatures[i].energy > ReproThreshold
                   THEN 1 ELSE 0
        /\ Len(Births) =
               Cardinality({i \in Survivors :
                                analysed.creatures[i].energy > ReproThreshold})

\* a tick of a population with distinct ids has made a birth for one agent
\* and none for another that pass 1 left with more than the split cost but no
\* more than the threshold
BirthBesideModestAgent ==
    /\ Ticked
    /\ DistinctIds(before.creatures)
    /\ Len(Births) >= 1
    /\ \E i \in Survivors :
           /\ analysed.creatures[i].energy > SplitCost
           /\ analysed.creatures[i].energy <= ReproThreshold

\* C20: pass 1 makes exactly two draws for every agent flagged alive when it
\* starts and none for the others; an agent not flagged alive is left as it
\* was, is marked, and is removed with a Death event of its id.
DrawsFollowLiveness ==
    Ticked =>
        /\ Len(analysed.creatures) = Len(before.creatures)
        /\ analysed.rng = Draws(before.rng, 2 * Cardinality(LiveBefore))
        /\ \A i \in DOMAIN before.creatures :
               i \notin LiveBefore =>
                   /\ analysed.creatures[i] = before.creatures[i]
                   /\ (i - 1) \in Marks
                   /\ \E e \in DOMAIN events :
                          IsDeath(events[e]) /\ events[e].id = before.creatures[i].id

\* pass 1 has met an agent not flagged alive and a live agent that died in
\* the tick
FlaggedBesideDying ==
    /\ Ticked
    /\ \E i \in DOMAIN before.creatures : i \notin LiveBefore
    /\ \E j \in LiveBefore : (j - 1) \in Marks

====
